---- MODULE Spec2Model ----
\* Model of detector/video.py: process_video, the video-analysis pipeline
\* (open source -> probe -> open writer -> frame loop -> release ->
\* transcode -> fallback -> cleanup -> return), one invocation.
EXTENDS Integers, Sequences, FiniteSets, TLC

\* ---------------------------------------------------------------- bounds

\* Longest source video (number of frames the capture yields).
MaxSrcFrames == 3
\* Largest frame_step argument tried.
MaxStep == 2
\* Largest max_frames argument tried.
MaxFramesArg == 3
\* Longest detection list given to draw_detections_bgr called on its own.
MaxDets == 3
\* Largest frame index whose timestamp is computed on its own.
MaxFrameIndex == 15
\* Most per_frame records in the result an upload handler receives.
MaxRecords == 2
\* Threads sharing one detector, and predict_image calls of each.
MaxThreads == 2
MaxCalls == 2

\* ------------------------------------------------------ program constants

\* names[:12]: the legend lists at most this many classes.
LegendMax == 12
\* _draw_legend: y of the first line (y1 + pad + 16), distance of two lines
\* (line_h), and how far a line's colour swatch reaches above y.
LegendFirstY == 36
LegendLineH == 22
SwatchRise == 12
\* Python's float is the IEEE 754 double: 53 significant bits.
MantissaBits == 53

\* ---------------------------------------------------------------- inputs

\* What a source frame shows; the detector's answer depends on it only.
FrameKinds == {"empty", "one", "two"}

\* Source videos: every sequence of frame kinds of length 0..MaxSrcFrames.
Videos == UNION {[1..n -> FrameKinds] : n \in 0..MaxSrcFrames}

\* frame_step arguments: negative, zero and positive.
FrameStepArgs == {-1, 0} \cup (1..MaxStep)

\* max_frames arguments: 0 (unbounded) and positive limits.
MaxFramesArgs == 0..MaxFramesArg
\* conf values, in hundredths: the default 0.25 and another one.
ConfArgs == {25, 50}

\* Values the container header may report.
HdrFps == {0, 30}
HdrDims == {<<0, 0>>, <<64, 48>>}
HdrTotals == {0, 2}

\* Shape (height, width) of a decoded frame.
FrameShape == <<48, 64>>

VARIABLES
    video,          \* input: the frames the source yields
    frame_step_arg, \* input: frame_step as given by the caller
    max_frames,     \* input: max_frames
    out_preexists,  \* input: a file exists at output_path beforehand
    conf,           \* input: conf, in hundredths
    pc,             \* position in process_video
    error,          \* which raise ended the invocation ("none" if none)
    frame_step,     \* frame_step after line 23
    cap,            \* capture handle: none / open / unopenable / released
    cap_pos,        \* position of the next frame cap.read() returns
    open_calls,     \* number of cv2.VideoCapture(...) constructions
    decoded,        \* source positions returned by cap.read(), in order
    fps, width, height, total_frames,
    writer,         \* writer handle: none / open / unopenable / released
    written,        \* frames given to writer.write, in order
    frame,          \* the loop's current frame
    frame_idx, sampled, per_frame, flat,
    detector_calls, \* number of detector.predict_image calls
    fs,             \* files: raw (intermediate) and out (final)
    transcode,      \* outcome of the transcode step ("none" before it)
    ffmpeg_runs,    \* number of times the ffmpeg subprocess was started
    result,         \* the returned tuple, "none" until returned
    probe,          \* the dimension probe: none / rewound / not_rewound
    cleanup,        \* the cleanup step: none / nothing / deleted / unlink_failed
    trace,          \* the capture, detector and writer calls made, in order
    peer_pc,        \* a second, concurrent invocation: its position
    peer_output,    \* the second invocation's output_path
    peer_fs,        \* the second invocation's files, where not shared
    d_pc,           \* position in draw_detections_bgr called on its own
    d_image,        \* content of the array the caller passed in
    d_dets,         \* the detections passed in
    d_ref,          \* the array `out` names: none / copy / input
    d_out,          \* content of the copy
    d_i,            \* detections drawn so far
    d_counts,       \* class_counts
    t_pc,           \* position in the timestamp computation taken on its own
    t_idx,          \* the frame index
    t_hdr,          \* the fps the container reports
    t_fps,          \* fps after line 28
    t_rec,          \* the per_frame record
    l_pc,           \* per thread: position in YOLODetector.predict_image
    l_done,         \* per thread: predict_image calls that returned
    l_model,        \* the shared detector's _model: none / loaded
    l_built,        \* number of YOLO(...) objects constructed
    u_kind,         \* an upload request: the handler serving it
    u_pc,           \* position in the handler
    u_error,        \* the step whose exception ended the request
    u_result,       \* what the pipeline or the inference returned
    u_files,        \* names of the files in the analysis directory
    u_disk,         \* content of detections.json, detections_per_frame.json, meta.json
    u_pending,      \* rows added to the session, not committed
    u_db,           \* committed rows
    u_preview,      \* the preview step: none / written / no_frame / raised
    u_pdf           \* the report step: none / written / raised

vars == <<video, frame_step_arg, max_frames, out_preexists, conf, pc, error,
          frame_step, cap, cap_pos, open_calls, decoded, fps, width, height,
          total_frames, writer, written, frame, frame_idx, sampled,
          per_frame, flat, detector_calls, fs, transcode, ffmpeg_runs,
          result, probe, cleanup, trace, peer_pc, peer_output, peer_fs,
          d_pc, d_image, d_dets, d_ref, d_out, d_i, d_counts,
          t_pc, t_idx, t_hdr, t_fps, t_rec, l_pc, l_done, l_model, l_built,
          u_kind, u_pc, u_error, u_result, u_files, u_disk, u_pending, u_db,
          u_preview, u_pdf>>

inputs == <<video, frame_step_arg, max_frames, out_preexists, conf>>
header == <<fps, width, height, total_frames>>
streamed == <<frame_idx, sampled, per_frame, flat>>
\* the second invocation
peer == <<peer_pc, peer_output, peer_fs>>
\* a call of draw_detections_bgr on its own
annot == <<d_pc, d_image, d_dets, d_ref, d_out, d_i, d_counts>>
\* the timestamp computation on its own
timing == <<t_pc, t_idx, t_hdr, t_fps, t_rec>>
\* the computations taken on their own, apart from the annotator
\* the shared detector and the threads calling it
loading == <<l_pc, l_done, l_model, l_built>>
\* an upload request
upload == <<u_kind, u_pc, u_error, u_result, u_files, u_disk, u_pending, u_db,
            u_preview, u_pdf>>
extra == <<timing, loading, upload>>
\* what no step of this invocation touches
outside == <<peer, annot, extra>>

\* ------------------------------------------------------- pure functions

\* types.py Detection(class_id, class_name, confidence, x1, y1, x2, y2)
Person == <<0, "person", 90, 1, 1, 5, 5>>
Car == <<2, "car", 60, 2, 3, 8, 9>>
Dog == <<16, "dog", 75, 3, 3, 6, 6>>

\* The class names in Python's string order.
ClassOrder == <<"car", "dog", "person">>
ClassNames == {ClassOrder[k] : k \in 1..Len(ClassOrder)}
NameRank(n) == CHOOSE k \in 1..Len(ClassOrder) : ClassOrder[k] = n

\* dataclasses.asdict(d)
asdict(d) ==
    [class_id |-> d[1], class_name |-> d[2], confidence |-> d[3],
     x1 |-> d[4], y1 |-> d[5], x2 |-> d[6], y2 |-> d[7]]

\* [asdict(d) for d in dets]
asdict_all(ds) == [k \in 1..Len(ds) |-> asdict(ds[k])]

\* detector.predict_image(frame): decided by what the frame shows.
predict_image(fr) ==
    CASE fr.kind = "empty" -> <<>>
      [] fr.kind = "one" -> <<Person>>
      [] OTHER -> <<Car, Person>>

\* class_counts after the loop over the detections (0: name not a key).
CountClasses(ds) ==
    [n \in ClassNames |-> Cardinality({k \in 1..Len(ds) : ds[k][2] = n})]

\* sorted(class_counts.keys(), key=lambda k: (-class_counts[k], k))
KeyBefore(counts, a, b) ==
    \/ counts[a] > counts[b]
    \/ counts[a] = counts[b] /\ NameRank(a) < NameRank(b)

RECURSIVE SortedNames(_, _)
SortedNames(counts, names) ==
    IF names = {} THEN <<>>
    ELSE LET first == CHOOSE a \in names :
                        \A b \in names \ {a} : KeyBefore(counts, a, b)
         IN <<first>> \o SortedNames(counts, names \ {first})

\* _draw_legend(out, names[:12], class_counts, ...): one line per name,
\* "{name}: {count}".
LegendPanel(counts) ==
    LET names == SortedNames(counts, {n \in DOMAIN counts : counts[n] > 0})
        shown == SubSeq(names, 1, IF Len(names) < LegendMax THEN Len(names)
                                  ELSE LegendMax)
    IN [k \in 1..Len(shown) |-> <<shown[k], counts[shown[k]]>>]

\* cv2 draws only what lies inside the image: the lines of the legend of
\* which at least the top row of the swatch is above the image's bottom edge.
LinesInside(lines, h) ==
    SubSeq(lines, 1,
           Cardinality({k \in 1..Len(lines) :
                          LegendFirstY + LegendLineH * (k - 1) - SwatchRise < h}))

\* One box with its label drawn on an image.
DrawBoxOn(img, det) == [img EXCEPT !.drawn = Append(img.drawn, det)]

\* The legend drawn on an image, if any class was counted.
DrawLegendOn(img, counts) ==
    IF \A n \in DOMAIN counts : counts[n] = 0 THEN img
    ELSE [img EXCEPT !.legend =
              Append(img.legend, LinesInside(LegendPanel(counts), img.height))]

\* draw_detections_bgr(frame, dets): a copy with the detections' boxes and
\* the legend drawn.
draw_detections_bgr(fr, ds) ==
    DrawLegendOn([fr EXCEPT !.drawn = fr.drawn \o ds], CountClasses(ds))

\* The frame cap.read() returns at source position p.
SourceFrame(p) ==
    [src |-> p, kind |-> video[p + 1], height |-> FrameShape[1],
     drawn |-> <<>>, legend |-> <<>>]

\* out = image_bgr.copy(): `out` names a new array
OutRefAlias == "input"
OutRef == "copy"

\* Python's a % b for a >= 0 and b # 0 (the sign follows b).
PyMod(a, b) ==
    IF b > 0 THEN a % b
    ELSE IF a % (0 - b) = 0 THEN 0 ELSE (a % (0 - b)) + b

\* frame_step = max(1, int(frame_step))
ClampFrameStepRaw(s) == s
ClampFrameStep(s) == IF s < 1 THEN 1 ELSE s

\* cap.get(CAP_PROP_FPS) or 25.0
FpsOrDefault(f) == IF f = 0 THEN 25 ELSE f

\* width <= 0 or height <= 0
NeedsProbe(w, h) == w <= 0 \/ h <= 0

\* frame_idx % frame_step == 0
ShouldSampleOff(idx, step) == PyMod(idx + 1, step) = 0
ShouldSampleSkipFirst(idx, step) == idx # 0 /\ PyMod(idx, step) = 0
ShouldSample(idx, step) == PyMod(idx, step) = 0

\* max_frames and frame_idx >= max_frames
ReachedLimitLate(idx, limit) == limit # 0 /\ idx > limit
ReachedLimit(idx, limit) == limit # 0 /\ idx >= limit

\* detector.predict_image(frame, conf=conf): the conf the detector is given
ForwardConfDefault(c) == 25
ForwardConf(c) == c

\* flat.extend(dets)
ExtendFlatFront(fl, ds) == ds \o fl
ExtendFlat(fl, ds) == fl \o ds

\* ------------------------------------------- double precision arithmetic
\* A double is zero or a record of its 53 significant bits (first bit 1) and
\* the exponent of the first bit; only non-negative values occur.

Zero == [mant |-> <<>>, exp |-> 0]
Zeros(k) == [j \in 1..k |-> 0]

RECURSIVE BitLength(_)
BitLength(n) == IF n = 0 THEN 0 ELSE 1 + BitLength(n \div 2)

\* the binary digits of n, first digit 1
BitsOfNat(n) == [j \in 1..BitLength(n) |-> (n \div 2 ^ (BitLength(n) - j)) % 2]

\* bits plus one, one digit longer when every digit is 1
Increment(bits) ==
    IF \A j \in 1..Len(bits) : bits[j] = 1 THEN <<1>> \o Zeros(Len(bits))
    ELSE LET p == CHOOSE j \in 1..Len(bits) :
                    bits[j] = 0 /\ \A k \in (j + 1)..Len(bits) : bits[k] = 1
         IN [j \in 1..Len(bits) |->
                IF j < p THEN bits[j] ELSE IF j = p THEN 1 ELSE 0]

\* bits minus one, for bits not all 0
Decrement(bits) ==
    LET p == CHOOSE j \in 1..Len(bits) :
                bits[j] = 1 /\ \A k \in (j + 1)..Len(bits) : bits[k] = 0
    IN [j \in 1..Len(bits) |->
            IF j < p THEN bits[j] ELSE IF j = p THEN 0 ELSE 1]

\* Round to nearest, ties to even: `bits` start with a 1 whose exponent is e,
\* `sticky` tells whether nonzero bits follow them.
RoundBits(bits, sticky, e) ==
    LET all == IF Len(bits) < MantissaBits
               THEN bits \o Zeros(MantissaBits - Len(bits)) ELSE bits
        kept == SubSeq(all, 1, MantissaBits)
        half == Len(all) > MantissaBits /\ all[MantissaBits + 1] = 1
        more == sticky \/ \E j \in (MantissaBits + 2)..Len(all) : all[j] = 1
        up == half /\ (more \/ kept[MantissaBits] = 1)
        m == IF up THEN Increment(kept) ELSE kept
    IN IF Len(m) > MantissaBits
       THEN [mant |-> SubSeq(m, 1, MantissaBits), exp |-> e + 1]
       ELSE [mant |-> m, exp |-> e]

\* float(i) of an int
FloatOfInt(i) ==
    IF i = 0 THEN Zero
    ELSE RoundBits(BitsOfNat(i), FALSE, Len(BitsOfNat(i)) - 1)

\* n / d scaled by a power of two into [1, 2)
RECURSIVE Scale(_, _, _)
Scale(n, d, e) ==
    IF n >= 2 * d THEN Scale(n, 2 * d, e + 1)
    ELSE IF n < d THEN Scale(2 * n, d, e - 1)
    ELSE <<n, d, e>>

\* long division of r by d, for r < 2 * d: what is left before bit k
RECURSIVE RemBefore(_, _, _)
RemBefore(r, d, k) == IF k = 1 THEN r ELSE 2 * (RemBefore(r, d, k - 1) % d)

\* the first k bits of r / d, and what is left after them
QuotBits(r, d, k) == [j \in 1..k |-> IF RemBefore(r, d, j) >= d THEN 1 ELSE 0]
RemAfter(r, d, k) == RemBefore(r, d, k + 1)

\* i / f in doubles, for an int i >= 0 and an integral double f > 0
FloatDiv(i, f) ==
    IF i = 0 THEN Zero
    ELSE LET s == Scale(i, f, 0)
         IN RoundBits(QuotBits(s[1], s[2], MantissaBits + 1),
                      RemAfter(s[1], s[2], MantissaBits + 1) # 0, s[3])

\* bits times f: the carry into digit j from the digits after it
RECURSIVE CarryInto(_, _, _)
CarryInto(bits, f, j) ==
    IF j = Len(bits) THEN 0
    ELSE (bits[j + 1] * f + CarryInto(bits, f, j + 1)) \div 2

\* bits times f, exactly
MulBits(bits, f) ==
    BitsOfNat((bits[1] * f + CarryInto(bits, f, 1)) \div 2)
        \o [j \in 1..Len(bits) |-> (bits[j] * f + CarryInto(bits, f, j)) % 2]

\* x * f in doubles, for an integral double f >= 0
FloatMul(x, f) ==
    IF x = Zero \/ f = 0 THEN Zero
    ELSE LET p == MulBits(x.mant, f)
         IN RoundBits(p, FALSE, x.exp + Len(p) - MantissaBits)

\* the doubles next to a positive double
NextUp(x) == RoundBits(Increment(x.mant), FALSE,
                       IF Len(Increment(x.mant)) > MantissaBits
                       THEN x.exp + 1 ELSE x.exp)
NextDown(x) ==
    IF x.mant = <<1>> \o Zeros(MantissaBits - 1)
    THEN [mant |-> [j \in 1..MantissaBits |-> 1], exp |-> x.exp - 1]
    ELSE [mant |-> Decrement(x.mant), exp |-> x.exp]

\* float(frame_idx / fps) if fps else 0.0, kept as the quotient's operands
TimestampUndivided(idx, f) ==
    IF f # 0 THEN [num |-> idx * f, den |-> f] ELSE [num |-> 0, den |-> 1]
Timestamp(idx, f) ==
    IF f # 0 THEN [num |-> idx, den |-> f] ELSE [num |-> 0, den |-> 1]

\* the double a timestamp_s field holds
TimestampValue(ts) == FloatDiv(ts.num, ts.den)

\* the per_frame record of a sampled frame
FrameRecord(idx, f, ds) ==
    [frame_index |-> idx,
     timestamp_s |-> Timestamp(idx, f),
     detections |-> asdict_all(ds)]

\* if not cap.isOpened(): raise
OnOpenResultUnchecked(ok) == "meta"
OnOpenResult(ok) == IF ok THEN "meta" ELSE "failed"

\* try: ... subprocess.run(check=True) / except Exception: -> fallback
AfterTranscodeRaising(outcome) == IF outcome = "ok" THEN "cleanup" ELSE "failed"
AfterTranscode(outcome) == IF outcome = "ok" THEN "cleanup" ELSE "fallback"

\* ffmpeg -i raw_path ... output_path: the H.264 encoding of what the
\* intermediate file holds.
Transcoded(content) == IF content = "peer_mp4v" THEN "peer_h264" ELSE "h264"

\* What the transcode step leaves on disk: success writes the final file;
\* a missing tool starts nothing; a failing ffmpeg (-y) may or may not have
\* created or truncated the final file before it exited.
FfmpegEffect(files, outcome) ==
    CASE outcome = "ok" -> [files EXCEPT !.out = Transcoded(files.raw)]
      [] outcome = "fail_partial" -> [files EXCEPT !.out = "partial"]
      [] OTHER -> files

TranscodeOutcomes == {"ok", "no_tool", "fail_clean", "fail_partial"}

\* Without an input file ffmpeg exits with an error before it opens its
\* output.
FfmpegOutcomes(files) ==
    IF files.raw = "absent" THEN {"no_tool", "fail_clean"} ELSE TranscodeOutcomes

\* raw_path.exists() and not output_path.exists()
FallbackAppliesAlways(files) == files.raw # "absent"
FallbackApplies(files) == files.raw # "absent" /\ files.out = "absent"

\* raw_path.replace(output_path)
Replace(files) == [raw |-> "absent", out |-> files.raw]

\* raw_path.exists() and raw_path != output_path
CleanupAppliesAfterSuccess(files) == files.raw # "absent" /\ files.out = "h264"
CleanupApplies(files) == files.raw # "absent"

\* What the cleanup step did: nothing to delete, deleted, or unlink raised.
CleanupOutcome(files, unlink_ok) ==
    IF ~CleanupApplies(files) THEN "nothing"
    ELSE IF unlink_ok THEN "deleted" ELSE "unlink_failed"

\* meta = {...}
Meta ==
    [fps |-> fps, width |-> width, height |-> height,
     total_frames |-> total_frames, frames_read |-> frame_idx,
     frame_step |-> frame_step, sampled_frames |-> sampled]

\* ------------------------------------------------------------------ Init

\* The invocation's locals on entry.
InitLocals ==
    /\ pc = "start"
    /\ error = "none"
    /\ frame_step = frame_step_arg
    /\ cap = "none"
    /\ cap_pos = 0
    /\ open_calls = 0
    /\ decoded = <<>>
    /\ fps = 0 /\ width = 0 /\ height = 0 /\ total_frames = 0
    /\ writer = "none"
    /\ written = <<>>
    /\ frame = "none"
    /\ frame_idx = 0 /\ sampled = 0 /\ per_frame = <<>> /\ flat = <<>>
    /\ detector_calls = 0
    /\ fs = [raw |-> "absent", out |-> IF out_preexists THEN "old" ELSE "absent"]
    /\ transcode = "none"
    /\ ffmpeg_runs = 0
    /\ result = "none"
    /\ probe = "none"
    /\ cleanup = "none"
    /\ trace = <<>>

\* No second invocation.
NoPeer ==
    /\ peer_pc = "absent"
    /\ peer_output = <<>>
    /\ peer_fs = [raw |-> "absent", out |-> "absent"]

\* No call of draw_detections_bgr on its own.
NoAnnot ==
    /\ d_pc = "idle"
    /\ d_image = "none"
    /\ d_dets = <<>>
    /\ d_ref = "none"
    /\ d_out = "none"
    /\ d_i = 0
    /\ d_counts = <<>>

\* No timestamp computation on its own.
NoTiming ==
    /\ t_pc = "idle"
    /\ t_idx = 0
    /\ t_hdr = 0
    /\ t_fps = 0
    /\ t_rec = "none"

\* The detector as constructed at main.py:63, no thread calling it.
NoLoading ==
    /\ l_pc = <<>>
    /\ l_done = <<>>
    /\ l_model = "none"
    /\ l_built = 0

\* rows of the three tables
EmptyDb == [files |-> 0, analyses |-> 0, detections |-> <<>>]
\* content of the three JSON files of a bundle
EmptyDisk == [detections |-> <<>>, per_frame |-> <<>>, num_detections |-> 0]
NoResult == [flat |-> <<>>, per_frame |-> <<>>]

\* No upload request.
NoUpload ==
    /\ u_kind = "none"
    /\ u_pc = "idle"
    /\ u_error = "none"
    /\ u_result = NoResult
    /\ u_files = {}
    /\ u_disk = EmptyDisk
    /\ u_pending = EmptyDb
    /\ u_db = EmptyDb
    /\ u_preview = "none"
    /\ u_pdf = "none"

NoExtra == NoTiming /\ NoLoading /\ NoUpload

Init ==
    /\ video \in Videos
    /\ frame_step_arg \in FrameStepArgs
    /\ max_frames \in MaxFramesArgs
    /\ out_preexists \in BOOLEAN
    /\ conf = 25
    /\ InitLocals
    /\ NoPeer
    /\ NoAnnot
    /\ NoExtra

\* --------------------------------------------------------------- actions

\* lines 23-26: clamp frame_step, open the capture, raise if not opened
OpenCapture ==
    /\ pc = "start"
    /\ \E ok \in BOOLEAN :
        /\ frame_step' = ClampFrameStep(frame_step_arg)
        /\ open_calls' = open_calls + 1
        /\ cap' = IF ok THEN "open" ELSE "unopenable"
        /\ pc' = OnOpenResult(ok)
        /\ error' = IF OnOpenResult(ok) = "failed" THEN "open" ELSE error
    /\ UNCHANGED <<inputs, cap_pos, decoded, header, writer, written, frame,
                   streamed, detector_calls, fs, transcode, ffmpeg_runs, result>>
    /\ UNCHANGED <<outside, probe, cleanup, trace>>

\* lines 28-33: read the header
ReadMeta ==
    /\ pc = "meta"
    /\ \E hf \in HdrFps, hd \in HdrDims, ht \in HdrTotals :
        /\ fps' = FpsOrDefault(hf)
        /\ width' = hd[1]
        /\ height' = hd[2]
        /\ total_frames' = ht
        /\ pc' = IF NeedsProbe(hd[1], hd[2]) THEN "probe" ELSE "open_writer"
    /\ UNCHANGED <<inputs, error, frame_step, cap, cap_pos, open_calls, decoded,
                   writer, written, frame, streamed, detector_calls, fs,
                   transcode, ffmpeg_runs, result>>
    /\ UNCHANGED <<outside, probe, cleanup, trace>>

\* lines 34-38: read one frame for its shape, then ask for a rewind, which
\* the stream may or may not honour
Probe ==
    /\ pc = "probe"
    /\ \E rewound \in BOOLEAN :
        IF cap_pos < Len(video)
        THEN /\ decoded' = Append(decoded, cap_pos)
             /\ height' = FrameShape[1]
             /\ width' = FrameShape[2]
             /\ cap_pos' = IF rewound THEN 0 ELSE cap_pos + 1
             /\ probe' = IF rewound THEN "rewound" ELSE "not_rewound"
             /\ trace' = Append(trace, <<"probe", cap_pos>>)
             /\ pc' = "open_writer"
             /\ error' = error
        ELSE /\ pc' = "failed"
             /\ error' = "probe"
             /\ UNCHANGED <<decoded, height, width, cap_pos, probe, trace>>
    /\ UNCHANGED <<inputs, frame_step, cap, open_calls, fps, total_frames,
                   writer, written, frame, streamed, detector_calls, fs,
                   transcode, ffmpeg_runs, result>>
    /\ UNCHANGED <<outside, cleanup>>

\* lines 40-43 without the isOpened check of lines 44-45
OpenWriterUnchecked ==
    /\ pc = "open_writer"
    /\ \E ok \in BOOLEAN :
        /\ writer' = IF ok THEN "open" ELSE "unopenable"
        /\ fs' = IF ok THEN [fs EXCEPT !.raw = "mp4v"] ELSE fs
        /\ pc' = "read"
        /\ error' = error
    /\ UNCHANGED <<inputs, frame_step, cap, cap_pos, open_calls, decoded, header,
                   written, frame, streamed, detector_calls, transcode,
                   ffmpeg_runs, result>>
    /\ UNCHANGED <<outside, probe, cleanup, trace>>

\* lines 40-45: open the writer on the intermediate file, raise if not opened
OpenWriter ==
    /\ pc = "open_writer"
    /\ \E ok \in BOOLEAN :
        IF ok
        THEN /\ writer' = "open"
             /\ fs' = [fs EXCEPT !.raw = "mp4v"]
             /\ pc' = "read"
             /\ error' = error
        ELSE /\ writer' = "unopenable"
             /\ fs' = fs
             /\ pc' = "failed"
             /\ error' = "writer"
    /\ UNCHANGED <<inputs, frame_step, cap, cap_pos, open_calls, decoded, header,
                   written, frame, streamed, detector_calls, transcode,
                   ffmpeg_runs, result>>
    /\ UNCHANGED <<outside, probe, cleanup, trace>>

\* if not ok: break
AfterEndOfStreamRetry == "read"
AfterEndOfStream == "release"

\* lines 53-55: read the next frame, leave the loop at end of stream
ReadFrame ==
    /\ pc = "read"
    /\ IF cap_pos < Len(video)
       THEN /\ frame' = SourceFrame(cap_pos)
            /\ decoded' = Append(decoded, cap_pos)
            /\ cap_pos' = cap_pos + 1
            /\ trace' = Append(trace, <<"read", frame_idx>>)
            /\ pc' = "sample"
       ELSE /\ pc' = AfterEndOfStream
            /\ UNCHANGED <<frame, decoded, cap_pos, trace>>
    /\ UNCHANGED <<inputs, error, frame_step, cap, open_calls, header, writer,
                   written, streamed, detector_calls, fs, transcode,
                   ffmpeg_runs, result>>
    /\ UNCHANGED <<outside, probe, cleanup>>

\* line 70 follows the sampling block: the frame is written next
AfterSampleSkipWrite == "read"
AfterSample == "write"

\* lines 57-68: on a sampled frame call the detector (whose exception, such
\* as the RuntimeError of YOLODetector._load, is not caught), record, draw
SampleFrame ==
    /\ pc = "sample"
    /\ \E raises \in BOOLEAN :
        IF frame_step = 0
        THEN /\ pc' = "failed"
             /\ error' = "zero_division"
             /\ UNCHANGED <<frame, streamed, detector_calls, trace>>
        ELSE IF ~ShouldSample(frame_idx, frame_step)
        THEN /\ pc' = AfterSample
             /\ UNCHANGED <<error, frame, streamed, detector_calls, trace>>
        ELSE IF raises
        THEN /\ pc' = "failed"
             /\ error' = "detector"
             /\ detector_calls' = detector_calls + 1
             /\ trace' = Append(trace, <<"detect", frame_idx, ForwardConf(conf)>>)
             /\ UNCHANGED <<frame, streamed>>
        ELSE /\ detector_calls' = detector_calls + 1
             /\ trace' = Append(trace, <<"detect", frame_idx, ForwardConf(conf)>>)
             /\ flat' = ExtendFlat(flat, predict_image(frame))
             /\ sampled' = sampled + 1
             /\ per_frame' = Append(per_frame,
                                FrameRecord(frame_idx, fps, predict_image(frame)))
             /\ frame' = draw_detections_bgr(frame, predict_image(frame))
             /\ pc' = AfterSample
             /\ UNCHANGED <<error, frame_idx>>
    /\ UNCHANGED <<inputs, frame_step, cap, cap_pos, open_calls, decoded, header,
                   writer, written, fs, transcode, ffmpeg_runs, result>>
    /\ UNCHANGED <<outside, probe, cleanup>>

\* lines 70-73: write the frame, count it, stop at max_frames
WriteFrame ==
    /\ pc = "write"
    /\ written' = Append(written, frame)
    /\ trace' = Append(trace, <<"write", frame_idx>>)
    /\ frame_idx' = frame_idx + 1
    /\ pc' = IF ReachedLimit(frame_idx + 1, max_frames) THEN "release" ELSE "read"
    /\ UNCHANGED <<inputs, error, frame_step, cap, cap_pos, open_calls, decoded,
                   header, writer, frame, sampled, per_frame, flat,
                   detector_calls, fs, transcode, ffmpeg_runs, result>>
    /\ UNCHANGED <<outside, probe, cleanup>>

\* line 75 without line 76: the writer is left open
ReleaseCapOnly ==
    /\ pc = "release"
    /\ cap' = "released"
    /\ pc' = "transcode"
    /\ UNCHANGED <<inputs, error, frame_step, cap_pos, open_calls, decoded,
                   header, writer, written, frame, streamed, detector_calls, fs,
                   transcode, ffmpeg_runs, result>>
    /\ UNCHANGED <<outside, probe, cleanup, trace>>

\* lines 75-76: release both handles
Release ==
    /\ pc = "release"
    /\ cap' = "released"
    /\ writer' = "released"
    /\ pc' = "transcode"
    /\ UNCHANGED <<inputs, error, frame_step, cap_pos, open_calls, decoded,
                   header, written, frame, streamed, detector_calls, fs,
                   transcode, ffmpeg_runs, result>>
    /\ UNCHANGED <<outside, probe, cleanup, trace>>

\* lines 81-97: run ffmpeg; any exception goes to the fallback
Transcode ==
    /\ pc = "transcode"
    /\ \E outcome \in FfmpegOutcomes(fs) :
        /\ transcode' = outcome
        /\ ffmpeg_runs' = IF outcome = "no_tool" THEN ffmpeg_runs
                          ELSE ffmpeg_runs + 1
        /\ fs' = FfmpegEffect(fs, outcome)
        /\ pc' = AfterTranscode(outcome)
        /\ error' = IF AfterTranscode(outcome) = "failed" THEN "transcode"
                    ELSE error
    /\ UNCHANGED <<inputs, frame_step, cap, cap_pos, open_calls, decoded, header,
                   writer, written, frame, streamed, detector_calls, result>>
    /\ UNCHANGED <<outside, probe, cleanup, trace>>

\* lines 98-103: keep the intermediate as the final file, if none is there;
\* an exception of the rename is swallowed
Fallback ==
    /\ pc = "fallback"
    /\ \E rename_ok \in BOOLEAN :
        fs' = IF FallbackApplies(fs) /\ rename_ok THEN Replace(fs) ELSE fs
    /\ pc' = "cleanup"
    /\ UNCHANGED <<inputs, error, frame_step, cap, cap_pos, open_calls, decoded,
                   header, writer, written, frame, streamed, detector_calls,
                   transcode, ffmpeg_runs, result>>
    /\ UNCHANGED <<outside, probe, cleanup, trace>>

\* lines 104-110 without the inner try: a failing unlink propagates
CleanupRaising ==
    /\ pc = "cleanup"
    /\ \E unlink_ok \in BOOLEAN :
        /\ fs' = IF CleanupApplies(fs) /\ unlink_ok
                 THEN [fs EXCEPT !.raw = "absent"] ELSE fs
        /\ cleanup' = CleanupOutcome(fs, unlink_ok)
        /\ pc' = IF CleanupApplies(fs) /\ ~unlink_ok THEN "failed" ELSE "assemble"
        /\ error' = IF CleanupApplies(fs) /\ ~unlink_ok THEN "cleanup" ELSE error
    /\ UNCHANGED <<inputs, frame_step, cap, cap_pos, open_calls, decoded,
                   header, writer, written, frame, streamed, detector_calls,
                   transcode, ffmpeg_runs, result>>
    /\ UNCHANGED <<outside, probe, trace>>

\* lines 104-110: delete the intermediate; an exception is swallowed
Cleanup ==
    /\ pc = "cleanup"
    /\ \E unlink_ok \in BOOLEAN :
        /\ fs' = IF CleanupApplies(fs) /\ unlink_ok
                 THEN [fs EXCEPT !.raw = "absent"] ELSE fs
        /\ cleanup' = CleanupOutcome(fs, unlink_ok)
    /\ pc' = "assemble"
    /\ UNCHANGED <<inputs, error, frame_step, cap, cap_pos, open_calls, decoded,
                   header, writer, written, frame, streamed, detector_calls,
                   transcode, ffmpeg_runs, result>>
    /\ UNCHANGED <<outside, probe, trace>>

\* lines 112-121: build meta and return
Return ==
    /\ pc = "assemble"
    /\ result' = [meta |-> Meta, flat |-> flat, per_frame |-> per_frame]
    /\ pc' = "done"
    /\ UNCHANGED <<inputs, error, frame_step, cap, cap_pos, open_calls, decoded,
                   header, writer, written, frame, streamed, detector_calls, fs,
                   transcode, ffmpeg_runs>>
    /\ UNCHANGED <<outside, probe, cleanup, trace>>

Next ==
    \/ OpenCapture
    \/ ReadMeta
    \/ Probe
    \/ OpenWriter
    \/ ReadFrame
    \/ SampleFrame
    \/ WriteFrame
    \/ Release
    \/ Transcode
    \/ Fallback
    \/ Cleanup
    \/ Return

Spec == Init /\ [][Next]_vars

\* The invocation runs in one thread with no cancellation: whenever a step
\* is possible, the interpreter takes one, and every call it makes (capture,
\* detector, writer, ffmpeg) returns or raises.
\* Which step comes next never depends on what a frame shows, so the sources
\* differ in their length only.
InitFair ==
    /\ video \in {v \in Videos : \A k \in DOMAIN v : v[k] = "one"}
    /\ frame_step_arg \in FrameStepArgs
    /\ max_frames \in MaxFramesArgs
    /\ out_preexists \in BOOLEAN
    /\ conf = 25
    /\ InitLocals
    /\ NoPeer
    /\ NoAnnot
    /\ NoExtra

FairSpec == InitFair /\ [][Next]_vars /\ WF_vars(Next)

\* The invocations with either conf argument, on sources of one frame kind.
InitConf ==
    /\ video \in {v \in Videos : \A k \in DOMAIN v : v[k] = "one"}
    /\ frame_step_arg \in FrameStepArgs
    /\ max_frames \in MaxFramesArgs
    /\ out_preexists \in BOOLEAN
    /\ conf \in ConfArgs
    /\ InitLocals
    /\ NoPeer
    /\ NoAnnot
    /\ NoExtra

SpecConf == InitConf /\ [][Next]_vars

\* ------------------------------------- draw_detections_bgr, step by step

\* this invocation's variables: its locals, and with them its files
locals == <<inputs, pc, error, frame_step, cap, cap_pos, open_calls, decoded,
            header, writer, written, frame, streamed, detector_calls,
            transcode, ffmpeg_runs, result, probe, cleanup, trace>>
pipeline == <<locals, fs>>

\* Detection lists and images draw_detections_bgr is called with.
DrawDetections == {Person, Car, Dog}
DetLists == UNION {[1..n -> DrawDetections] : n \in 0..MaxDets}
ImageHeights == {FrameShape[1], 480}
DrawImages ==
    {[src |-> 0, kind |-> k, height |-> h, drawn |-> <<>>, legend |-> <<>>] :
        k \in FrameKinds, h \in ImageHeights}

\* The content of the array `out` names.
OutContent == IF d_ref = "input" THEN d_image ELSE d_out

InitDraw ==
    /\ video = <<>>
    /\ frame_step_arg = 1
    /\ max_frames = 0
    /\ out_preexists = FALSE
    /\ conf = 25
    /\ InitLocals
    /\ NoPeer
    /\ NoExtra
    /\ d_pc = "copy"
    /\ d_image \in DrawImages
    /\ d_dets \in DetLists
    /\ d_ref = "none"
    /\ d_out = "none"
    /\ d_i = 0
    /\ d_counts = <<>>

\* lines 63-65: copy the image, start with empty counts
DrawCopy ==
    /\ d_pc = "copy"
    /\ d_ref' = OutRef
    /\ d_out' = IF OutRef = "copy" THEN d_image ELSE d_out
    /\ d_counts' = [n \in ClassNames |-> 0]
    /\ d_pc' = "boxes"
    /\ UNCHANGED <<d_image, d_dets, d_i, pipeline, peer, extra>>

\* lines 66-76: count the detection's class, draw its box and label on out
DrawBox ==
    /\ d_pc = "boxes"
    /\ d_i < Len(d_dets)
    /\ LET det == d_dets[d_i + 1] IN
        /\ d_counts' = [d_counts EXCEPT ![det[2]] = @ + 1]
        /\ IF d_ref = "input"
           THEN d_image' = DrawBoxOn(d_image, det) /\ d_out' = d_out
           ELSE d_out' = DrawBoxOn(d_out, det) /\ d_image' = d_image
    /\ d_i' = d_i + 1
    /\ UNCHANGED <<d_pc, d_dets, d_ref, pipeline, peer, extra>>

\* lines 78-83: draw the legend if anything was counted, return out
DrawLegend ==
    /\ d_pc = "boxes"
    /\ d_i = Len(d_dets)
    /\ IF d_ref = "input"
       THEN d_image' = DrawLegendOn(d_image, d_counts) /\ d_out' = d_out
       ELSE d_out' = DrawLegendOn(d_out, d_counts) /\ d_image' = d_image
    /\ d_pc' = "returned"
    /\ UNCHANGED <<d_dets, d_ref, d_i, d_counts, pipeline, peer, extra>>

NextDraw ==
    \/ DrawCopy
    \/ DrawBox
    \/ DrawLegend

SpecDraw == InitDraw /\ [][NextDraw]_vars

\* ---------------------------------- the timestamp of one per_frame record

\* fps values a container reports (0: none), and frame indices.
TimeFps == {0, 24, 25, 30, 50}
FrameIndices == 0..MaxFrameIndex

InitTime ==
    /\ video = <<>>
    /\ frame_step_arg = 1
    /\ max_frames = 0
    /\ out_preexists = FALSE
    /\ conf = 25
    /\ InitLocals
    /\ NoPeer
    /\ NoAnnot
    /\ NoLoading
    /\ NoUpload
    /\ t_pc = "fps"
    /\ t_idx \in FrameIndices
    /\ t_hdr \in TimeFps
    /\ t_fps = 0
    /\ t_rec = "none"

\* line 28: fps = float(cap.get(cv2.CAP_PROP_FPS) or 25.0)
TimeReadFps ==
    /\ t_pc = "fps"
    /\ t_fps' = FpsOrDefault(t_hdr)
    /\ t_pc' = "record"
    /\ UNCHANGED <<t_idx, t_hdr, t_rec, pipeline, peer, annot, loading, upload>>

\* lines 61-67: the record of the sampled frame t_idx
TimeRecord ==
    /\ t_pc = "record"
    /\ t_rec' = FrameRecord(t_idx, t_fps, <<>>)
    /\ t_pc' = "recorded"
    /\ UNCHANGED <<t_idx, t_hdr, t_fps, pipeline, peer, annot, loading, upload>>

NextTime ==
    \/ TimeReadFps
    \/ TimeRecord

SpecTime == InitTime /\ [][NextTime]_vars

\* ------------------------------------ YOLODetector shared by threads

Threads == 1..MaxThreads

InitLoad ==
    /\ video = <<>>
    /\ frame_step_arg = 1
    /\ max_frames = 0
    /\ out_preexists = FALSE
    /\ conf = 25
    /\ InitLocals
    /\ NoPeer
    /\ NoAnnot
    /\ NoTiming
    /\ NoUpload
    /\ l_pc = [t \in Threads |-> "call"]
    /\ l_done = [t \in Threads |-> 0]
    /\ l_model = "none"
    /\ l_built = 0

\* where a thread goes when a predict_image call has ended
AfterCall(n) == IF n < MaxCalls THEN "call" ELSE "end"

\* yolo_detector.py 36, 23-24: predict_image calls _load, which returns at
\* once if the model is there
LoadCheck(t) ==
    /\ l_pc[t] = "call"
    /\ l_pc' = [l_pc EXCEPT ![t] = IF l_model # "none" THEN "predict"
                                   ELSE "construct"]
    /\ UNCHANGED <<l_done, l_model, l_built, pipeline, peer, annot, timing, upload>>

\* yolo_detector.py 25-32: import ultralytics and construct the model; a
\* failing import or constructor raises out of predict_image
LoadConstruct(t) ==
    /\ l_pc[t] = "construct"
    /\ \E ok \in BOOLEAN :
        IF ok
        THEN /\ l_built' = l_built + 1
             /\ l_pc' = [l_pc EXCEPT ![t] = "assign"]
             /\ UNCHANGED <<l_done, l_model>>
        ELSE /\ l_done' = [l_done EXCEPT ![t] = @ + 1]
             /\ l_pc' = [l_pc EXCEPT ![t] = AfterCall(l_done[t] + 1)]
             /\ UNCHANGED <<l_built, l_model>>
    /\ UNCHANGED <<pipeline, peer, annot, timing, upload>>

\* yolo_detector.py 32: self._model = the constructed model
LoadAssign(t) ==
    /\ l_pc[t] = "assign"
    /\ l_model' = "loaded"
    /\ l_pc' = [l_pc EXCEPT ![t] = "predict"]
    /\ UNCHANGED <<l_done, l_built, pipeline, peer, annot, timing, upload>>

\* yolo_detector.py 37-73: run the model and return the detections
LoadPredict(t) ==
    /\ l_pc[t] = "predict"
    /\ l_done' = [l_done EXCEPT ![t] = @ + 1]
    /\ l_pc' = [l_pc EXCEPT ![t] = AfterCall(l_done[t] + 1)]
    /\ UNCHANGED <<l_model, l_built, pipeline, peer, annot, timing, upload>>

NextLoad ==
    \E t \in Threads :
        \/ LoadCheck(t)
        \/ LoadConstruct(t)
        \/ LoadAssign(t)
        \/ LoadPredict(t)

SpecLoad == InitLoad /\ [][NextLoad]_vars

\* ------------------------------ a second invocation running concurrently

\* Paths as sequences: the stem, then the suffixes.
OutputPath == <<"out", "mp4">>

\* Output paths of the second invocation, all different from OutputPath.
PeerOutputs == {<<"other", "mp4">>, <<"out", "avi">>, <<"out", "raw", "mp4">>}

\* output_path.with_suffix(".raw.mp4"): the last suffix is replaced
with_suffix(path) ==
    (IF Len(path) > 1 THEN SubSeq(path, 1, Len(path) - 1) ELSE path)
        \o <<"raw", "mp4">>

\* The second invocation's intermediate and final file as it finds them:
\* a path that is also a path of this invocation names the same file.
PeerFiles ==
    [raw |-> IF with_suffix(peer_output) = with_suffix(OutputPath) THEN fs.raw
             ELSE IF with_suffix(peer_output) = OutputPath THEN fs.out
             ELSE peer_fs.raw,
     out |-> IF peer_output = with_suffix(OutputPath) THEN fs.raw
             ELSE peer_fs.out]

\* This invocation's files after the second invocation left its files as
\* `files`.
FilesAfterPeer(files) ==
    [raw |-> IF with_suffix(peer_output) = with_suffix(OutputPath) THEN files.raw
             ELSE IF peer_output = with_suffix(OutputPath) THEN files.out
             ELSE fs.raw,
     out |-> IF with_suffix(peer_output) = OutputPath THEN files.raw
             ELSE fs.out]

\* The second invocation's unshared files after it left its files as `files`.
PeerFilesAfter(files) ==
    [raw |-> IF \/ with_suffix(peer_output) = with_suffix(OutputPath)
                \/ with_suffix(peer_output) = OutputPath
             THEN peer_fs.raw ELSE files.raw,
     out |-> IF peer_output = with_suffix(OutputPath)
             THEN peer_fs.out ELSE files.out]

PeerStore(files) ==
    /\ fs' = FilesAfterPeer(files)
    /\ peer_fs' = PeerFilesAfter(files)

InitConc ==
    /\ video = <<"one">>
    /\ frame_step_arg = 1
    /\ max_frames = 0
    /\ out_preexists = FALSE
    /\ conf = 25
    /\ InitLocals
    /\ NoAnnot
    /\ NoExtra
    /\ peer_pc = "start"
    /\ peer_output \in PeerOutputs
    /\ peer_fs = [raw |-> "absent", out |-> "absent"]

\* lines 40-45 in the second invocation: its writer creates its intermediate
PeerOpenWriter ==
    /\ peer_pc = "start"
    /\ PeerStore([PeerFiles EXCEPT !.raw = "peer_mp4v"])
    /\ peer_pc' = "transcode"
    /\ UNCHANGED <<locals, peer_output, annot, extra>>

\* lines 81-97 in the second invocation
PeerTranscode ==
    /\ peer_pc = "transcode"
    /\ \E outcome \in FfmpegOutcomes(PeerFiles) :
        /\ PeerStore(FfmpegEffect(PeerFiles, outcome))
        /\ peer_pc' = AfterTranscode(outcome)
    /\ UNCHANGED <<locals, peer_output, annot, extra>>

\* lines 98-103 in the second invocation
PeerFallback ==
    /\ peer_pc = "fallback"
    /\ \E rename_ok \in BOOLEAN :
        PeerStore(IF FallbackApplies(PeerFiles) /\ rename_ok
                  THEN Replace(PeerFiles) ELSE PeerFiles)
    /\ peer_pc' = "cleanup"
    /\ UNCHANGED <<locals, peer_output, annot, extra>>

\* lines 104-110 in the second invocation
PeerCleanup ==
    /\ peer_pc = "cleanup"
    /\ \E unlink_ok \in BOOLEAN :
        PeerStore(IF CleanupApplies(PeerFiles) /\ unlink_ok
                  THEN [PeerFiles EXCEPT !.raw = "absent"] ELSE PeerFiles)
    /\ peer_pc' = "done"
    /\ UNCHANGED <<locals, peer_output, annot, extra>>

NextConc ==
    \/ OpenCapture
    \/ ReadMeta
    \/ Probe
    \/ OpenWriter
    \/ ReadFrame
    \/ SampleFrame
    \/ WriteFrame
    \/ Release
    \/ Transcode
    \/ Fallback
    \/ Cleanup
    \/ Return
    \/ PeerOpenWriter
    \/ PeerTranscode
    \/ PeerFallback
    \/ PeerCleanup

SpecConc == InitConc /\ [][NextConc]_vars

\* ------------------------------------------------------------ properties

\* The files before the invocation.
InitialFiles == [raw |-> "absent", out |-> IF out_preexists THEN "old" ELSE "absent"]

FinalizingPcs == {"transcode", "fallback", "cleanup", "assemble"}

\* concat(fr.detections for fr in per_frame)
RECURSIVE ConcatDetections(_)
ConcatDetections(pf) ==
    IF pf = <<>> THEN <<>>
    ELSE pf[1].detections \o ConcatDetections(Tail(pf))

\* A written frame as it was decoded, before anything was drawn on it.
Undrawn(fr) == [fr EXCEPT !.drawn = <<>>, !.legend = <<>>]

\* concat(predict_image(f) for f in frames), frames as decoded
RECURSIVE ConcatPredictions(_)
ConcatPredictions(frames) ==
    IF frames = <<>> THEN <<>>
    ELSE predict_image(Undrawn(frames[1])) \o ConcatPredictions(Tail(frames))

\* The result of a run with frame_step = 1 over the frames the loop wrote:
\* every frame is sampled, recorded under its index and drawn.
StepOneResult ==
    [meta |-> [fps |-> fps, width |-> width, height |-> height,
               total_frames |-> total_frames, frames_read |-> Len(written),
               frame_step |-> 1, sampled_frames |-> Len(written)],
     flat |-> ConcatPredictions(written),
     per_frame |-> [k \in 1..Len(written) |->
                      FrameRecord(k - 1, fps, predict_image(Undrawn(written[k])))]]

\* C1: for frame_step >= 1 every per_frame record's frame_index is a
\* multiple of frame_step and the indices strictly increase along the list,
\* in every state of the loop (the partial list) and in the returned list.
C1_SampledIndices ==
    /\ \A k \in 1..Len(per_frame) :
        /\ frame_step_arg >= 1 => per_frame[k].frame_index % frame_step_arg = 0
        /\ k > 1 => per_frame[k - 1].frame_index < per_frame[k].frame_index
    /\ pc = "done" => result.per_frame = per_frame

C1_Witness ==
    /\ pc = "done"
    /\ frame_step_arg = 2
    /\ Len(result.per_frame) >= 2

\* C2: sampled_frames equals the length of per_frame, and flat_detections is
\* the concatenation, in frame order, of the records' detections.
C2_ResultConsistent ==
    /\ sampled = Len(per_frame)
    /\ asdict_all(flat) = ConcatDetections(per_frame)
    /\ pc = "done" =>
        /\ result.meta.sampled_frames = Len(result.per_frame)
        /\ asdict_all(result.flat) = ConcatDetections(result.per_frame)

C2_Witness ==
    /\ pc = "done"
    /\ Len(result.per_frame) >= 2
    /\ result.per_frame[1].detections # <<>>
    /\ result.per_frame[2].detections # <<>>
    /\ result.per_frame[1].detections # result.per_frame[2].detections

\* C3: with max_frames = N > 0 at most N frames are counted and at most N
\* frames are written, and the returned frames_read is at most N.
C3_MaxFramesBound ==
    max_frames > 0 =>
        /\ frame_idx <= max_frames
        /\ Len(written) <= max_frames
        /\ pc = "done" => result.meta.frames_read <= max_frames

C3_Witness ==
    /\ pc = "done"
    /\ max_frames > 0
    /\ Len(video) > max_frames
    /\ result.meta.frames_read = max_frames
    /\ Len(written) = max_frames

\* C4: a frame_step of 0 or below never raises by itself and gives the
\* result of frame_step = 1: meta.frame_step is 1, every frame is sampled.
\* The same holds of frame_step = 1, so the runs agree.
C4_NonPositiveStepActsAsOne ==
    frame_step_arg <= 1 =>
        /\ error # "zero_division"
        /\ pc # "start" => frame_step = 1
        /\ pc = "done" => result = StepOneResult

C4_Witness ==
    /\ pc = "done"
    /\ frame_step_arg < 1
    /\ Len(result.per_frame) >= 2
    /\ result.flat # <<>>

\* C5 (as claimed): if the transcode step fails and no final file existed
\* beforehand, the final path holds the intermediate video at completion.
C5_FallbackKeepsIntermediate ==
    (pc = "done" /\ transcode \notin {"none", "ok"} /\ ~out_preexists)
        => fs.out = "mp4v"

\* C6: no outcome of the transcode step, of the fallback rename or of the
\* cleanup makes the invocation raise or changes what is returned: through
\* finalizing the streamed values stay as the loop left them, and the
\* returned tuple is built from them.
C6_TranscodeFailureAbsorbed ==
    /\ [][(pc \in FinalizingPcs) =>
            (pc' # "failed" /\ UNCHANGED <<header, frame_step, streamed>>)]_vars
    /\ [](pc = "done" =>
            result = [meta |-> Meta, flat |-> flat, per_frame |-> per_frame])

C6_Witness ==
    /\ pc = "done"
    /\ transcode = "fail_partial"
    /\ fs.raw = "mp4v"
    /\ Len(result.per_frame) >= 1

\* C7 (as claimed): when the invocation has ended, by return or by raise, no
\* capture or writer handle is still open.
C7_HandlesReleased ==
    pc \in {"done", "failed"} => cap # "open" /\ writer # "open"

\* C8 (as claimed): at completion the written frames are the decoded frames,
\* each once and in order: as many as frames_read, the k-th written frame is
\* the k-th frame of the source, and no decoded frame is missing.
C8_EveryDecodedFrameWritten ==
    pc = "done" =>
        /\ Len(written) = result.meta.frames_read
        /\ \A k \in 1..Len(written) : written[k].src = k - 1
        /\ \A i \in 1..Len(decoded) :
              \E k \in 1..Len(written) : written[k].src = decoded[i]

\* C9 (as claimed): the invocation fails only while opening the source,
\* probing it or opening the writer.
C9_FailsOnlyWhileOpening ==
    [][pc' = "failed" => pc \in {"start", "probe", "open_writer"}]_vars

\* C9 (amended): the invocation fails only while opening (source, probe,
\* writer) or in the frame loop's sampling step, whose exception is not
\* caught; from finalizing on it never fails and only moves towards Done.
C9_FailsOnlyBeforeFinalizing ==
    /\ [][pc' = "failed" => pc \in {"start", "probe", "open_writer", "sample"}]_vars
    /\ [][(pc \in FinalizingPcs) => (pc' \in FinalizingPcs \cup {"done"})]_vars

C9_Witness ==
    /\ pc = "failed"
    /\ error = "detector"
    /\ Len(written) >= 1

\* C10: when the source cannot be opened the invocation has failed at once:
\* one open attempt, no writer, no frame read, no detector call, no
\* transcoder run, the files as they were, nothing returned.
C10_OpenFailureIsImmediate ==
    cap = "unopenable" =>
        /\ pc = "failed"
        /\ error = "open"
        /\ open_calls = 1
        /\ writer = "none"
        /\ decoded = <<>> /\ written = <<>>
        /\ detector_calls = 0
        /\ transcode = "none" /\ ffmpeg_runs = 0
        /\ fs = InitialFiles
        /\ result = "none"

C10_Witness ==
    /\ cap = "unopenable"
    /\ pc = "failed"
    /\ ~out_preexists
    /\ fs.out = "absent"
    /\ Len(video) >= 1

\* C11 (as claimed): at completion the intermediate file no longer exists
\* under its own name.
C11_IntermediateGone ==
    pc = "done" => fs.raw = "absent"

\* C11 (amended): at completion the intermediate file no longer exists under
\* its own name unless its deletion was attempted and failed; that failure
\* is swallowed, the invocation still returns.
C11_IntermediateGoneUnlessUnlinkFails ==
    /\ pc = "done" => (fs.raw = "absent" \/ cleanup = "unlink_failed")
    /\ pc = "done" => cleanup # "none"
    /\ cleanup = "unlink_failed" => (pc \in {"assemble", "done"} /\ error = "none")
    /\ cleanup = "nothing" => (fs.raw = "absent" /\ fs.out = "mp4v")

C11_Witness ==
    /\ pc = "done"
    /\ cleanup = "unlink_failed"
    /\ fs.raw = "mp4v"
    /\ transcode = "ok"

\* C12: when transcoding failed and a file is at the final path, the
\* fallback leaves both files as they are (no rename), and the cleanup that
\* follows changes nothing but the intermediate, which it deletes: the final
\* file stays what the transcode step left of the pre-existing one.
C12_FallbackSkipsExistingFinal ==
    (out_preexists /\ transcode \notin {"none", "ok"}
        /\ pc \in {"cleanup", "assemble", "done"}) =>
        /\ fs.out = FfmpegEffect(InitialFiles, transcode).out
        /\ fs.out # "mp4v"
        /\ fs.raw = (IF cleanup = "deleted" THEN "absent" ELSE "mp4v")

C12_Witness ==
    /\ pc = "done"
    /\ out_preexists
    /\ transcode = "fail_clean"
    /\ fs.out = "old"
    /\ fs.raw = "absent"

\* C13 (as claimed): when the writer fails to open, no frame has been read
\* from the source.
C13_WriterFailureBeforeAnyRead ==
    writer = "unopenable" => decoded = <<>>

\* C13 (amended): when the writer fails to open, the invocation has failed
\* before the frame loop read anything: nothing was sampled, detected or
\* written; the only frame read so far is the one the dimension probe read,
\* when the container reported width or height <= 0.
C13_WriterFailureBeforeLoop ==
    writer = "unopenable" =>
        /\ pc = "failed" /\ error = "writer"
        /\ frame = "none" /\ frame_idx = 0
        /\ written = <<>> /\ per_frame = <<>> /\ flat = <<>>
        /\ detector_calls = 0
        /\ fs.raw = "absent"
        /\ decoded = (IF probe = "none" THEN <<>> ELSE <<0>>)

C13_Witness ==
    /\ writer = "unopenable"
    /\ probe # "none"
    /\ decoded = <<0>>
    /\ Len(video) >= 2

\* C14 (as claimed): after a dimension probe the probed frame is processed
\* as frame index 0: it is the first frame written and the first record of
\* per_frame, whether or not the rewind took effect.
C14_ProbedFrameIsFrameZero ==
    (pc = "done" /\ probe # "none") =>
        /\ Len(written) >= 1
        /\ written[1].src = 0
        /\ Len(per_frame) >= 1
        /\ per_frame[1] = FrameRecord(0, fps, predict_image(SourceFrame(0)))

\* The frame indices recorded in a per_frame list.
SampledIndices(pf) == {pf[k].frame_index : k \in 1..Len(pf)}

\* The multiples of step among 0..n-1.
MultiplesBelow(n, step) == {i \in 0..(n - 1) : i % step = 0}

\* C15 (as claimed): with max_frames = N > 0 and a source of at least N
\* frames, frames_read is N, the last written frame is the source's frame
\* N-1, no source frame from N on is read, and the sampled indices are the
\* multiples of frame_step below N.
C15_InclusiveCutoff ==
    (pc = "done" /\ max_frames > 0 /\ Len(video) >= max_frames) =>
        /\ result.meta.frames_read = max_frames
        /\ Len(written) = max_frames
        /\ written[max_frames].src = max_frames - 1
        /\ \A i \in 1..Len(decoded) : decoded[i] < max_frames
        /\ SampledIndices(result.per_frame) = MultiplesBelow(max_frames, frame_step)

\* C16: in a completed run the sampled indices are exactly the multiples of
\* frame_step among 0..frames_read-1, so sampled_frames is
\* ceil(frames_read / frame_step); frames on which the detector finds nothing
\* add nothing to flat_detections.
C16_SampledCount ==
    pc = "done" =>
        /\ SampledIndices(result.per_frame)
              = MultiplesBelow(result.meta.frames_read, result.meta.frame_step)
        /\ result.meta.sampled_frames
              = Cardinality(MultiplesBelow(result.meta.frames_read,
                                           result.meta.frame_step))
        /\ result.meta.sampled_frames * result.meta.frame_step
              >= result.meta.frames_read
        /\ (result.meta.sampled_frames - 1) * result.meta.frame_step
              < result.meta.frames_read
        /\ (\A k \in 1..Len(written) : written[k].kind = "empty")
              => result.flat = <<>>

C16_Witness ==
    /\ pc = "done"
    /\ result.meta.frame_step = 2
    /\ result.meta.frames_read = 3
    /\ result.meta.sampled_frames = 2
    /\ result.flat = <<>>

\* C17 (as claimed): with max_frames = 0 frames_read is the number of frames
\* the source yields, whatever total the header reports, and the header's
\* total is what meta.total_frames holds.
C17_UnboundedReadsWholeSource ==
    (pc = "done" /\ max_frames = 0) =>
        /\ result.meta.frames_read = Len(video)
        /\ result.meta.total_frames = total_frames
        /\ result.meta.total_frames \in HdrTotals

\* C18: draw_detections_bgr never changes the array it was given, and for
\* an empty detection list the returned array equals the input (no box, no
\* label, no legend); in general the returned array is the input with the
\* boxes and the legend drawn.
C18_InputKeptAndEmptyListIdentity ==
    /\ [][d_image' = d_image]_vars
    /\ []((d_pc = "returned" /\ d_dets = <<>>) => OutContent = d_image)
    /\ [](d_pc = "returned" => OutContent = draw_detections_bgr(d_image, d_dets))

C18_Witness ==
    /\ d_pc = "returned"
    /\ d_dets = <<>>
    /\ d_ref = "copy"
    /\ d_out = d_image

\* What the final file of this invocation can hold when it runs alone.
FinalsAlone == {"absent", "h264", "mp4v", "partial"}

\* C19: two invocations with distinct output paths share no file: a step
\* of the second invocation never changes this invocation's intermediate
\* or final file, and this invocation's final file is one it could have
\* produced alone.
C19_InvocationsIndependent ==
    /\ [][(peer_pc' # peer_pc /\ pc \notin {"done", "failed"}) => (fs' = fs)]_vars
    /\ []((pc = "done") => (fs.out \in FinalsAlone))

\* C20: every invocation on a source with finitely many frames eventually
\* returns its result (done) or raises (failed); it does not stay in the
\* opening, streaming or finalizing steps forever.
C20_EventuallyDoneOrFailed == <>(pc \in {"done", "failed"})

C20_Witness ==
    /\ pc = "done"
    /\ Len(video) = MaxSrcFrames
    /\ Len(decoded) = MaxSrcFrames
    /\ max_frames = 0

\* The detector calls of the trace, in order.
IsDetect(e) == e[1] = "detect"
DetectorCalls == SelectSeq(trace, IsDetect)

\* C21: the detector is called exactly once for each frame whose index is
\* divisible by frame_step, each time with the caller's conf, and never for
\* another frame; a completed run reports as sampled_frames the number of
\* detector calls.
C21_OneDetectorCallPerSampledFrame ==
    /\ Len(DetectorCalls) = detector_calls
    /\ \A k \in 1..Len(DetectorCalls) :
        /\ DetectorCalls[k][3] = conf
        /\ PyMod(DetectorCalls[k][2], frame_step) = 0
        /\ \A j \in 1..(k - 1) : DetectorCalls[j][2] < DetectorCalls[k][2]
    /\ \A i \in 0..(frame_idx - 1) :
        PyMod(i, frame_step) = 0
            => \E k \in 1..Len(DetectorCalls) : DetectorCalls[k][2] = i
    /\ pc = "done" => Len(DetectorCalls) = result.meta.sampled_frames

C21_Witness ==
    /\ pc = "done"
    /\ conf = 50
    /\ frame_step = 2
    /\ frame_idx = 3
    /\ Len(DetectorCalls) = 2

\* The calls made inside the loop of lines 52-73.
IsLoopCall(e) == e[1] # "probe"
LoopCalls == SelectSeq(trace, IsLoopCall)

\* C22: the calls of one invocation are strictly sequential: the read of
\* frame index 0 is the loop's first call, the read of index i+1 comes right
\* after the write of index i, a detector call comes right after the read of
\* its frame, and a write right after the read of its frame or the detector
\* call on it; the dimension probe comes before all of them.
C22_StrictlySequential ==
    /\ \A p \in 1..Len(trace) : trace[p][1] = "probe" => p = 1
    /\ \A p \in 1..Len(LoopCalls) :
        LET e == LoopCalls[p]
            before == LoopCalls[p - 1]
        IN CASE e[1] = "read" ->
                    IF p = 1 THEN e[2] = 0
                    ELSE before[1] = "write" /\ before[2] = e[2] - 1
             [] e[1] = "detect" ->
                    p > 1 /\ before[1] = "read" /\ before[2] = e[2]
             [] e[1] = "write" ->
                    /\ p > 1
                    /\ before[1] \in {"read", "detect"}
                    /\ before[2] = e[2]
                    /\ before[1] = "detect" <=> ShouldSample(e[2], frame_step)
             [] OTHER -> FALSE

C22_Witness ==
    /\ pc = "done"
    /\ frame_step = 2
    /\ Len(trace) = 9
    /\ trace[1][1] = "probe"
    /\ trace[9] = <<"write", 2>>

\* C23: the transcode step starts only when capture and writer are both
\* released, ffmpeg is started at most once, no frame is read or written
\* once the transcode step has started, and the result is assembled only
\* after the transcode attempt and the cleanup have ended.
C23_TranscodeAfterCloseOnce ==
    /\ [](pc = "transcode" => (cap = "released" /\ writer = "released"))
    /\ [](transcode # "none" => (cap = "released" /\ writer = "released"))
    /\ [](ffmpeg_runs <= 1)
    /\ [][(pc = "transcode" \/ transcode # "none")
            => (decoded' = decoded /\ written' = written /\ trace' = trace)]_vars
    /\ [](pc = "done" => (transcode # "none" /\ cleanup # "none"))
    /\ [][(pc' = "done" /\ pc # "done")
            => (pc = "assemble" /\ transcode # "none" /\ cleanup # "none")]_vars
    /\ [][(pc # "assemble") => UNCHANGED result]_vars

C23_Witness ==
    /\ pc = "done"
    /\ transcode = "ok"
    /\ ffmpeg_runs = 1
    /\ Len(written) = 2
    /\ cleanup = "deleted"

\* C24 as claimed: fps is 25 when the container reports none, and in every
\* record timestamp_s * fps == frame_index, with timestamp_s 0 at index 0.
C24_TimestampTimesFpsIsIndex ==
    t_pc = "recorded" =>
        /\ t_hdr = 0 => t_fps = 25
        /\ t_rec.frame_index = 0 => TimestampValue(t_rec.timestamp_s) = Zero
        /\ FloatMul(TimestampValue(t_rec.timestamp_s), t_fps)
              = FloatOfInt(t_rec.frame_index)

\* C24 as the code has it: fps is 25 when the container reports none;
\* timestamp_s is the double quotient frame_index / fps, which is 0 at
\* index 0, and timestamp_s * fps is frame_index or one of the two doubles
\* next to it.
C24_TimestampIsRoundedQuotient ==
    t_pc = "recorded" =>
        /\ t_hdr = 0 => t_fps = 25
        /\ t_fps # 0
        /\ t_rec.frame_index = t_idx
        /\ TimestampValue(t_rec.timestamp_s) = FloatDiv(t_idx, t_fps)
        /\ t_idx = 0 => TimestampValue(t_rec.timestamp_s) = Zero
        /\ t_idx # 0 =>
              FloatMul(TimestampValue(t_rec.timestamp_s), t_fps)
                \in {FloatOfInt(t_idx), NextUp(FloatOfInt(t_idx)),
                     NextDown(FloatOfInt(t_idx))}

C24_Witness ==
    /\ t_pc = "recorded"
    /\ t_hdr = 0
    /\ t_idx = 7
    /\ FloatMul(TimestampValue(t_rec.timestamp_s), t_fps) = NextUp(FloatOfInt(7))

\* The class names of a detection list, and the lines of the legend that
\* the returned image shows.
NamesOf(ds) == {ds[k][2] : k \in 1..Len(ds)}
ShownLegend == IF OutContent.legend = <<>> THEN <<>> ELSE OutContent.legend[1]

\* C25: for a non-empty detection list the legend shows
\* min(12, number of distinct class names) lines, in the order of descending
\* count and, among equal counts, ascending name, and each line's count is
\* the number of detections of its class.
C25_LegendListsTopClasses ==
    (d_pc = "returned" /\ d_dets # <<>>) =>
        /\ Len(OutContent.legend) = 1
        /\ Len(ShownLegend) = (IF Cardinality(NamesOf(d_dets)) < LegendMax
                               THEN Cardinality(NamesOf(d_dets)) ELSE LegendMax)
        /\ \A k \in 1..Len(ShownLegend) :
            /\ ShownLegend[k][1] \in NamesOf(d_dets)
            /\ ShownLegend[k][2] = CountClasses(d_dets)[ShownLegend[k][1]]
            /\ \A j \in 1..(k - 1) :
                KeyBefore(CountClasses(d_dets), ShownLegend[j][1],
                          ShownLegend[k][1])

\* C26: a YOLODetector constructs its model at most once, whatever the
\* threads sharing it do, and once the model is there it stays.
C26_ModelBuiltAtMostOnce ==
    /\ [](l_built <= 1)
    /\ [][(l_model = "loaded") => (l_model' = "loaded" /\ l_built' = l_built)]_vars

\* ---------------------------------------------------------------------
\* One upload request, from the handler's first statement to its response.
\* ---------------------------------------------------------------------

\* The four upload handlers.
VideoHandlers == {"upload_video", "upload_video_page"}
ImageHandlers == {"upload_image", "upload_page"}
Handlers == VideoHandlers \cup ImageHandlers
\* upload_page answers right after the commit; the others build a report.
ReportingHandlers == Handlers \ {"upload_page"}

\* The files of a bundle, in the order save_analysis_bundle_video writes
\* them; save_analysis_bundle writes the first and the last.
BundleOrder(kind) ==
    IF kind \in VideoHandlers
    THEN <<"detections.json", "detections_per_frame.json", "meta.json">>
    ELSE <<"detections.json", "meta.json">>
BundleFiles(kind) == {BundleOrder(kind)[k] : k \in 1..Len(BundleOrder(kind))}

\* What process_video can return: records in frame order, one per sampled
\* frame, and their detections concatenated.
FrameDetections == {predict_image([kind |-> k]) : k \in FrameKinds}
RECURSIVE FlatOf(_)
FlatOf(cs) == IF cs = <<>> THEN <<>> ELSE cs[1] \o FlatOf(Tail(cs))
VideoResults ==
    UNION {{[flat |-> FlatOf(c),
             per_frame |-> [k \in 1..n |-> FrameRecord(k - 1, 25, c[k])]] :
                c \in [1..n -> FrameDetections]} : n \in 0..MaxRecords}
\* What predict_image can return.
ImageResults == {[flat |-> ds, per_frame |-> <<>>] : ds \in FrameDetections}
Results(kind) == IF kind \in VideoHandlers THEN VideoResults ELSE ImageResults

\* "num_detections": len(detections)
CountRecords(flat_detections, per_frame_dets) == Len(per_frame_dets)
num_detections(flat_detections, per_frame_dets) == Len(flat_detections)

\* The rows bulk_create_detections adds, one per detection.
DetectionRow(d) ==
    [analysis_fk |-> 1, class_id |-> d[1], class_name |-> d[2],
     confidence |-> d[3], x1 |-> d[4], y1 |-> d[5], x2 |-> d[6], y2 |-> d[7]]
bulk_create_detections(ds) == [k \in 1..Len(ds) |-> DetectionRow(ds[k])]

\* An exception in the preview block of a video handler: except Exception: pass
OnPreviewErrorRaising == "failed"
OnPreviewError == "bundle"
\* An exception while the bundle is written: nothing catches it.
OnBundleErrorSwallowed == "db"
OnBundleError == "failed"

InitUpload ==
    /\ video = <<>>
    /\ frame_step_arg = 1
    /\ max_frames = 0
    /\ out_preexists = FALSE
    /\ conf = 25
    /\ InitLocals
    /\ NoPeer
    /\ NoAnnot
    /\ NoTiming
    /\ NoLoading
    /\ u_kind \in Handlers
    /\ u_pc = "run"
    /\ u_error = "none"
    /\ u_result = NoResult
    /\ u_files = {"input"}
    /\ u_disk = EmptyDisk
    /\ u_pending = EmptyDb
    /\ u_db = EmptyDb
    /\ u_preview = "none"
    /\ u_pdf = "none"

\* process_video(...) in a video handler, load_image_bgr and
\* detector.predict_image in an image handler: outside any try.
UploadRun ==
    /\ u_pc = "run"
    /\ \/ /\ u_pc' = "failed"
          /\ u_error' = "run"
          /\ UNCHANGED u_result
       \/ /\ \E r \in Results(u_kind) : u_result' = r
          /\ u_pc' = "preview"
          /\ UNCHANGED u_error
    /\ UNCHANGED <<u_kind, u_files, u_disk, u_pending, u_db, u_preview, u_pdf,
                   pipeline, peer, annot, timing, loading>>

\* A video handler captures the first frame of the output inside
\* try/except; an image handler saves the annotated image outside any try.
UploadPreview ==
    /\ u_pc = "preview"
    /\ \/ /\ u_preview' = "written"
          /\ u_files' = u_files \cup {"preview.jpg"}
          /\ u_pc' = "bundle"
          /\ UNCHANGED u_error
       \/ /\ u_kind \in VideoHandlers
          /\ u_preview' = "no_frame"
          /\ u_pc' = "bundle"
          /\ UNCHANGED <<u_files, u_error>>
       \/ /\ u_kind \in VideoHandlers
          /\ u_preview' = "raised"
          /\ u_pc' = OnPreviewError
          /\ u_error' = IF OnPreviewError = "failed" THEN "preview" ELSE u_error
          /\ UNCHANGED u_files
       \/ /\ u_kind \in ImageHandlers
          /\ u_preview' = "raised"
          /\ u_pc' = "failed"
          /\ u_error' = "preview"
          /\ UNCHANGED u_files
    /\ UNCHANGED <<u_kind, u_result, u_disk, u_pending, u_db, u_pdf,
                   pipeline, peer, annot, timing, loading>>

\* The bundle on disk when the first n files of the order are written.
DiskAfter(n, names, r) ==
    [detections |->
        IF \E k \in 1..n : names[k] = "detections.json"
        THEN asdict_all(r.flat) ELSE <<>>,
     per_frame |->
        IF \E k \in 1..n : names[k] = "detections_per_frame.json"
        THEN r.per_frame ELSE <<>>,
     num_detections |->
        IF \E k \in 1..n : names[k] = "meta.json"
        THEN num_detections(r.flat, r.per_frame) ELSE 0]

\* save_analysis_bundle / save_analysis_bundle_video: the files one after
\* the other; a write that raises leaves the earlier files and ends the
\* request.
UploadBundle ==
    /\ u_pc = "bundle"
    /\ \/ /\ u_files' = u_files \cup BundleFiles(u_kind)
          /\ u_disk' = DiskAfter(Len(BundleOrder(u_kind)), BundleOrder(u_kind),
                                 u_result)
          /\ u_pc' = "db"
          /\ UNCHANGED u_error
       \/ \E n \in 0..(Len(BundleOrder(u_kind)) - 1) :
          /\ u_files' = u_files \cup {BundleOrder(u_kind)[k] : k \in 1..n}
          /\ u_disk' = DiskAfter(n, BundleOrder(u_kind), u_result)
          /\ u_pc' = OnBundleError
          /\ u_error' = IF OnBundleError = "failed" THEN "bundle" ELSE u_error
    /\ UNCHANGED <<u_kind, u_result, u_pending, u_db, u_preview, u_pdf,
                   pipeline, peer, annot, timing, loading>>

\* create_file, create_analysis, bulk_create_detections: rows added to the
\* session and flushed; an exception ends the request and the session is
\* closed with its rows.
UploadStage ==
    /\ u_pc = "db"
    /\ \/ /\ u_pending' = [files |-> 1, analyses |-> 1,
                           detections |-> bulk_create_detections(u_result.flat)]
          /\ u_pc' = "commit"
          /\ UNCHANGED u_error
       \/ /\ u_pending' = EmptyDb
          /\ u_pc' = "failed"
          /\ u_error' = "db"
    /\ UNCHANGED <<u_kind, u_result, u_files, u_disk, u_db, u_preview, u_pdf,
                   pipeline, peer, annot, timing, loading>>

\* db.commit(): all the rows of the session or none.
UploadCommit ==
    /\ u_pc = "commit"
    /\ \/ /\ u_db' = u_pending
          /\ u_pending' = EmptyDb
          /\ u_pc' = IF u_kind \in ReportingHandlers THEN "pdf" ELSE "respond"
          /\ UNCHANGED u_error
       \/ /\ u_pending' = EmptyDb
          /\ u_pc' = "failed"
          /\ u_error' = "db"
          /\ UNCHANGED u_db
    /\ UNCHANGED <<u_kind, u_result, u_files, u_disk, u_preview, u_pdf,
                   pipeline, peer, annot, timing, loading>>

\* The report block: try ... except Exception: pass
UploadPdf ==
    /\ u_pc = "pdf"
    /\ \/ /\ u_pdf' = "written"
          /\ u_files' = u_files \cup {"report.pdf"}
       \/ /\ u_pdf' = "raised"
          /\ UNCHANGED u_files
    /\ u_pc' = "respond"
    /\ UNCHANGED <<u_kind, u_error, u_result, u_disk, u_pending, u_db,
                   u_preview, pipeline, peer, annot, timing, loading>>

\* return UploadResponse(...) / RedirectResponse(...)
UploadRespond ==
    /\ u_pc = "respond"
    /\ u_pc' = "responded"
    /\ UNCHANGED <<u_kind, u_error, u_result, u_files, u_disk, u_pending, u_db,
                   u_preview, u_pdf, pipeline, peer, annot, timing, loading>>

NextUpload ==
    \/ UploadRun
    \/ UploadPreview
    \/ UploadBundle
    \/ UploadStage
    \/ UploadCommit
    \/ UploadPdf
    \/ UploadRespond

SpecUpload == InitUpload /\ [][NextUpload]_vars

\* The request ended with the normal response.
Succeeded == u_pc = "responded"
BundleOnDisk == BundleFiles(u_kind) \subseteq u_files

\* Sum of len(rec["detections"]) over the records of a per-frame list.
RECURSIVE SumDetections(_)
SumDetections(pf) ==
    IF pf = <<>> THEN 0 ELSE Len(pf[1].detections) + SumDetections(Tail(pf))

\* C27: after a video upload completed successfully, meta.json's
\* num_detections, the number of entries of detections.json, the number of
\* committed detection rows of the analysis and the sum of the lengths of
\* the detections of the records of detections_per_frame.json are equal.
C27_StoresAgreeOnDetections ==
    (Succeeded /\ u_kind \in VideoHandlers) =>
        /\ BundleOnDisk
        /\ u_db.analyses = 1
        /\ u_disk.num_detections = Len(u_disk.detections)
        /\ Len(u_disk.detections) = Len(u_db.detections)
        /\ Len(u_db.detections) = SumDetections(u_disk.per_frame)
        /\ \A k \in 1..Len(u_db.detections) :
            /\ u_db.detections[k].class_name = u_disk.detections[k].class_name
            /\ u_db.detections[k].analysis_fk = u_db.analyses

C27_Witness ==
    /\ Succeeded
    /\ u_kind = "upload_video"
    /\ Len(u_disk.per_frame) = 2
    /\ u_disk.num_detections = 3
    /\ Len(u_db.detections) = 3

\* C28: a committed analysis row has its meta.json and detections.json on
\* disk: the rows are committed only when the bundle is written, and a
\* request whose pipeline or inference failed, like any failed request,
\* leaves no committed row.
C28_BundleBeforeRows ==
    /\ [](u_db # EmptyDb =>
            /\ {"meta.json", "detections.json"} \subseteq u_files
            /\ u_db.files = 1
            /\ u_db.analyses = 1)
    /\ [](u_pc = "failed" => u_db = EmptyDb)
    /\ [](u_error = "run" => (u_pending = EmptyDb /\ u_db = EmptyDb))
    /\ [][(u_db' # u_db) => (u_pc = "commit" /\ BundleOnDisk)]_vars

C28_Witness ==
    /\ u_db.analyses = 1
    /\ u_kind = "upload_page"
    /\ u_pc = "responded"
    /\ Len(u_db.detections) = 2

\* C29: in a video upload an exception of the preview capture or of the
\* report generation does not end the request: after the first the handler
\* goes on to save the bundle, after the second, with the bundle on disk and
\* the rows committed, to the normal response; the report is attempted only
\* after the commit.
C29_PreviewAndReportNeverFail ==
    /\ []((u_kind \in VideoHandlers /\ u_pc = "failed") =>
            u_error \notin {"preview", "pdf"})
    /\ [][(u_kind \in VideoHandlers /\ u_preview' = "raised" /\ u_preview = "none")
            => (u_pc' = "bundle")]_vars
    /\ [][(u_kind \in VideoHandlers /\ u_pdf' # u_pdf) =>
            (u_pc' = "respond" /\ BundleOnDisk /\ u_db.analyses = 1
             /\ u_db' = u_db)]_vars
    /\ []((u_kind \in VideoHandlers /\ Succeeded) =>
            (BundleOnDisk /\ u_db.analyses = 1))

C29_Witness ==
    /\ Succeeded
    /\ u_kind \in VideoHandlers
    /\ u_preview = "raised"
    /\ u_pdf = "raised"
    /\ BundleOnDisk
    /\ u_db.analyses = 1

====
